---- MODULE Spec2Model ----
(***************************************************************************)
(* Model of pfin.py: InputWorksheet (column map resolution, row filter,    *)
(* share calculation, projection, partition) and OutputWorksheet (upload   *)
(* of the two summary tables).                                             *)
(*                                                                         *)
(* Cell values are tagged records: a text cell is [s |-> <<chars>>] (the   *)
(* empty cell is the empty text, as gspread returns it), an integer cell   *)
(* is [n |-> i], and the float produced by a true division is the          *)
(* unreduced fraction [num |-> i, den |-> j].  Texts are sequences of      *)
(* one-character strings so that ==, in, startswith, replace and f-string  *)
(* formatting are computed, not assumed.                                   *)
(***************************************************************************)
EXTENDS Integers, Sequences, FiniteSets, TLC

VARIABLES pc, raw_values_full, values_full, colmap, summary_values,
          parents_summary_values, error, sheet, uploads

vars == <<pc, raw_values_full, values_full, colmap, summary_values,
          parents_summary_values, error, sheet, uploads>>

\* ------------------------------------------------------------- bounds
\* widest input grid drawn (the August 2021 layout needs 27 columns)
MaxWidth == 28
\* most data rows below the 4-row title block
MaxRows == 2
\* marker column of the grids whose data rows are varied
DataWhere == 5

\* ------------------------------------------------------------- texts
Digits == <<"0", "1", "2", "3", "4", "5", "6", "7", "8", "9">>

RECURSIVE FormatNat(_)
\* str(n) of a natural number, as an f-string renders it
FormatNat(n) ==
    IF n < 10 THEN <<Digits[n + 1]>>
    ELSE FormatNat(n \div 10) \o <<Digits[(n % 10) + 1]>>

\* str(n) of an integer
FormatInt(n) == IF n < 0 THEN <<"-">> \o FormatNat(0 - n) ELSE FormatNat(n)

\* sub in s
Contains(sub, s) ==
    \E i \in 1..(Len(s) - Len(sub) + 1) : SubSeq(s, i, i + Len(sub) - 1) = sub

\* s.startswith(prefix)
StartsWith(s, prefix) ==
    Len(s) >= Len(prefix) /\ SubSeq(s, 1, Len(prefix)) = prefix

\* s.replace(old, new) for one-character old and new
Replace(s, old, new) == [i \in 1..Len(s) |-> IF s[i] = old THEN new ELSE s[i]]

Min(S) == CHOOSE m \in S : \A o \in S : m <= o
Max(S) == CHOOSE m \in S : \A o \in S : m >= o

\* ------------------------------------------------------------- cells
Str(s) == [s |-> s]
Num(n) == [n |-> n]
Float(a, b) == [num |-> a, den |-> b]
IsStr(c) == DOMAIN c = {"s"}
IsNum(c) == DOMAIN c = {"n"}
IsFloat(c) == DOMAIN c = {"num", "den"}

\* bool(c): what `if cell` and `a and b` test
Truthy(c) ==
    IF IsStr(c) THEN c.s # <<>>
    ELSE IF IsNum(c) THEN c.n # 0
    ELSE c.num # 0

\* ------------------------------------------------------------- literals
KEY == <<"g", "d", "z", "i", "e">>
TRANSFER == <<"t", "r", "a", "n", "s", "f", "e", "r">>
ROZLICZENIE == <<"r", "o", "z", "l", "i", "c", "z", "e", "n", "i", "e">>
PARENT_PREFIX == <<"R">>
FIRST_DATAROW == 3
TITLE_ROWS == 4
DATE_COL == "H"
PERCENT_COL == "J"
RESULT_COL == "K"
RESULT_COL_NR == 11

NULL == [null |-> TRUE]

\* ------------------------------------------------------------- _get_colmap
\* next((i for i, v in enumerate(row, start=1) if v == key), None); None is 0
KeyColNrLast(row) ==
    LET hits == {i \in 1..Len(row) : row[i] = Str(KEY)}
    IN  IF hits = {} THEN 0 ELSE Max(hits)

KeyColNr(row) ==
    LET hits == {i \in 1..Len(row) : row[i] = Str(KEY)}
    IN  IF hits = {} THEN 0 ELSE Min(hits)

\* [*range(a, b)]
Range(a, b) == [i \in 1..(IF b > a THEN b - a ELSE 0) |-> a + i - 1]

MakeColmap(key_col_nr) ==
    [ordinal |-> 1,
     amount |-> 2,
     balance |-> 3,
     bank_tag |-> 4,
     bank_accounts |-> Range(5, key_col_nr),
     where |-> key_col_nr,
     who |-> key_col_nr + 1,
     what_category |-> key_col_nr + 2,
     what_item |-> key_col_nr + 3,
     incomings |-> key_col_nr + 4,
     date |-> key_col_nr + 5,
     separator |-> key_col_nr + 6,
     percentage |-> key_col_nr + 7,
     share |-> key_col_nr + 9]

\* the summary list with the separator column left out
SummaryColNumbersNoSeparator(cm) ==
    <<cm.ordinal, cm.amount, cm.where, cm.who, cm.what_category, cm.what_item,
      cm.incomings, cm.date, cm.percentage, cm.share>>

\* self._summary_col_numbers
SummaryColNumbers(cm) ==
    <<cm.ordinal, cm.amount, cm.where, cm.who, cm.what_category, cm.what_item,
      cm.incomings, cm.date, cm.separator, cm.percentage, cm.share>>

\* ------------------------------------------------------------- _get_summary_values
\* replace raw value date with formatted value date
DateNotReplaced(raw, fmt, cm) == raw

DateReplaced(raw, fmt, cm) ==
    [index \in 1..Len(raw) |->
        [i \in 1..Len(raw[index]) |->
            IF i = cm.date THEN fmt[index][cm.date] ELSE raw[index][i]]]

\* the filter's condition on one row, evaluated left to right as `and` does:
\* "keep", "drop", or the exception the evaluation raises
RowAdmit(row, cm) ==
    IF Len(row) < cm.ordinal THEN "IndexError"
    ELSE IF ~Truthy(row[cm.ordinal]) THEN "drop"
    ELSE IF Len(row) < cm.amount THEN "IndexError"
    ELSE IF ~Truthy(row[cm.amount]) THEN "drop"
    ELSE IF Len(row) < cm.what_category THEN "IndexError"
    ELSE IF row[cm.what_category] = Str(TRANSFER) THEN "drop"
    ELSE IF Len(row) < cm.incomings THEN "IndexError"
    ELSE IF ~IsStr(row[cm.incomings]) THEN "TypeError"
    ELSE IF Contains(ROZLICZENIE, row[cm.incomings].s) THEN "drop"
    ELSE IF Len(row) < cm.percentage THEN "IndexError"
    ELSE IF ~Truthy(row[cm.percentage]) THEN "drop"
    ELSE "keep"

\* amount * percentage / 100 on two integers
ShareValueNoDivision(amount, percentage) == Float(amount * percentage, 1)

ShareValue(amount, percentage) == Float(amount * percentage, 100)

\* the share loop's body on one admitted row: "ok" or the exception raised
ShareOutcome(row, cm) ==
    IF ~(IsNum(row[cm.amount]) /\ IsNum(row[cm.percentage])) THEN "TypeError"
    ELSE IF Len(row) < cm.share THEN "IndexError"
    ELSE "ok"

\* row[self.colmap["share"] - 1] = share
WithShare(row, cm) ==
    [row EXCEPT ![cm.share] = ShareValue(row[cm.amount].n, row[cm.percentage].n)]

\* [v for i, v in enumerate(row, start=1) if i in self.summary_col_numbers]
Project(row, cols) ==
    LET keep(i) == \E j \in 1..Len(cols) : cols[j] = i
        idx == SelectSeq([i \in 1..Len(row) |-> i], keep)
    IN  [j \in 1..Len(idx) |-> row[idx[j]]]

\* the exception of the first row (in order) that raises, or "none"
FirstError(outcomes) ==
    LET bad == {i \in 1..Len(outcomes) :
                    outcomes[i] \in {"IndexError", "TypeError", "AttributeError"}}
    IN  IF bad = {} THEN "none" ELSE outcomes[Min(bad)]

\* row[self.colmap["ordinal"] - 1].startswith("R") on a projected row
IsParent(row, cm) == StartsWith(row[cm.ordinal].s, PARENT_PREFIX)

\* the whole of _get_summary_values: [error, leaf, parents]
SummaryResult(raw, fmt, cm, cols) ==
    LET AbortWith(e) == [error |-> e, leaf |-> <<>>, parents |-> <<>>]
        dated == DateReplaced(raw, fmt, cm)
        e1 == FirstError([i \in 1..Len(dated) |-> RowAdmit(dated[i], cm)])
        kept(row) == RowAdmit(row, cm) = "keep"
        filtered == SelectSeq(dated, kept)
        e2 == FirstError([i \in 1..Len(filtered) |-> ShareOutcome(filtered[i], cm)])
        shared == [i \in 1..Len(filtered) |-> WithShare(filtered[i], cm)]
        projected == [i \in 1..Len(shared) |-> Project(shared[i], cols)]
        e3 == FirstError([i \in 1..Len(projected) |->
                            IF IsStr(projected[i][cm.ordinal]) THEN "ok"
                            ELSE "AttributeError"])
        parent(row) == IsParent(row, cm)
        leaf(row) == ~IsParent(row, cm)
    IN  IF e1 # "none" THEN AbortWith(e1)
        ELSE IF e2 # "none" THEN AbortWith(e2)
        ELSE IF e3 # "none" THEN AbortWith(e3)
        ELSE [error |-> "none",
              leaf |-> SelectSeq(projected, leaf),
              parents |-> SelectSeq(projected, parent)]

\* ------------------------------------------------------------- input worksheets
\* a header cell that is not the marker: near misses of it, a number, an empty cell
HeaderCell(c) ==
    CASE c % 4 = 0 -> Str(<<"G", "d", "z", "i", "e">>)
      [] c % 4 = 1 -> Str(KEY \o <<" ">>)
      [] c % 4 = 2 -> Num(c)
      [] OTHER -> Str(<<>>)

HeaderRow(W, marks) ==
    [c \in 1..W |-> IF c \in marks THEN Str(KEY) ELSE HeaderCell(c)]

\* a cell of a title row, or of a column no field of the row lives in
Filler(tag, r, c) == Str(<<tag>> \o FormatNat(r) \o <<"c">> \o FormatNat(c))

DateText(i) == <<"2", "0", "2", "1", "-", "0", "8", "-">> \o FormatNat(10 + i)
DateSerial(i) == 44418 + i

\* what the sheet holds in the share column before the run
StaleShare(i) == IF i % 2 = 1 THEN Num(999) ELSE Str(<<>>)

\* data row i of a grid of width W whose marker is at column k, unformatted
RawRow(W, k, i, f) ==
    [c \in 1..W |->
        CASE c = 1 -> f.ordinal
          [] c = 2 -> f.amount
          [] c = k + 2 -> f.category
          [] c = k + 4 -> f.incomings
          [] c = k + 5 -> Num(DateSerial(i))
          [] c = k + 7 -> f.percentage
          [] c = k + 9 -> StaleShare(i)
          [] OTHER -> Filler("d", i, c)]

\* FORMATTED_VALUE of a cell: numbers as their displayed text
Formatted(cell) == IF IsNum(cell) THEN Str(FormatInt(cell.n)) ELSE cell

FormattedRow(W, k, i, f) ==
    [c \in 1..W |->
        IF c = k + 5 THEN Str(DateText(i)) ELSE Formatted(RawRow(W, k, i, f)[c])]

\* the two reads of one worksheet: the same extent, 4 title rows (the header is
\* the second), then the data rows
RawGrid(W, marks, k, rows) ==
    <<[c \in 1..W |-> Filler("t", 1, c)], HeaderRow(W, marks),
      [c \in 1..W |-> Filler("t", 3, c)], [c \in 1..W |-> Filler("t", 4, c)]>>
    \o [i \in 1..Len(rows) |-> RawRow(W, k, i, rows[i])]

FormattedGrid(W, marks, k, rows) ==
    <<[c \in 1..W |-> Filler("t", 1, c)], HeaderRow(W, marks),
      [c \in 1..W |-> Filler("t", 3, c)], [c \in 1..W |-> Filler("t", 4, c)]>>
    \o [i \in 1..Len(rows) |-> FormattedRow(W, k, i, rows[i])]

Fields(o, a, c, n, p) ==
    [ordinal |-> o, amount |-> a, category |-> c, incomings |-> n, percentage |-> p]

FOOD == Str(<<"f", "o", "o", "d">>)
NONE == Str(<<"n", "o", "n", "e">>)
LEAF_ORD == Str(<<"1">>)
PARENT_ORD == Str(<<"R", "3">>)

\* the rows the data grids are drawn from: every combination of a passing and
\* a failing ordinal, amount, category and percentage, and rows with the other
\* cell values the filter, the share and the partition tell apart
RowSet ==
    {Fields(o, a, c, NONE, p) :
        o \in {Str(<<>>), LEAF_ORD},
        a \in {Str(<<>>), Num(200)},
        c \in {FOOD, Str(TRANSFER)},
        p \in {Str(<<>>), Num(50)}}
    \cup {Fields(LEAF_ORD, Num(200), FOOD, Str(<<"x", " ">> \o ROZLICZENIE), Num(50)),
          Fields(PARENT_ORD, Num(200), FOOD, Str(ROZLICZENIE), Num(50)),
          Fields(PARENT_ORD, Num(0 - 30), FOOD, Str(<<>>), Num(100)),
          Fields(LEAF_ORD, Num(0), FOOD, NONE, Num(50)),
          Fields(LEAF_ORD, Num(200), FOOD, NONE, Num(0)),
          Fields(Num(7), Num(200), FOOD, NONE, Num(50)),
          Fields(Str(<<"1", "R">>), Num(200), Str(TRANSFER \o <<"s">>), NONE, Num(50)),
          Fields(LEAF_ORD, Num(200), FOOD, Num(5), Num(50)),
          Fields(LEAF_ORD, Str(<<"x">>), FOOD, NONE, Num(50))}

SampleRows ==
    <<Fields(LEAF_ORD, Num(200), FOOD, NONE, Num(50)),
      Fields(PARENT_ORD, Num(0 - 30), FOOD, Str(<<>>), Num(100))>>

RowSeqs(n) == UNION {[1..m -> RowSet] : m \in 0..n}

MarkSets(W) ==
    {{}} \cup {{a} : a \in 1..W} \cup {{a, b} : a, b \in 1..W}

\* the output worksheet before the upload: a title, the header, one blank data row,
\* the result row, then the same three rows for the parents' table
Template ==
    <<<<Str(<<"t", "i", "t", "l", "e">>)>>, <<Str(<<"h", "e", "a", "d">>)>>,
      <<Str(<<>>)>>, <<Str(<<"s", "u", "m">>)>>,
      <<Str(<<"h", "e", "a", "d", "P">>)>>, <<Str(<<>>)>>, <<Str(<<"s", "u", "m", "P">>)>>>>

Init ==
    /\ \/ \E W \in 1..MaxWidth : \E marks \in MarkSets(W) :
            LET k == IF marks = {} THEN DataWhere ELSE Min(marks)
            IN  /\ raw_values_full = RawGrid(W, marks, k, SampleRows)
                /\ values_full = FormattedGrid(W, marks, k, SampleRows)
       \/ \E rows \in RowSeqs(MaxRows) :
            LET W == DataWhere + 10
            IN  /\ raw_values_full = RawGrid(W, {DataWhere}, DataWhere, rows)
                /\ values_full = FormattedGrid(W, {DataWhere}, DataWhere, rows)
    /\ pc = "init"
    /\ colmap = NULL
    /\ summary_values = <<>>
    /\ parents_summary_values = <<>>
    /\ error = "none"
    /\ sheet = Template
    /\ uploads = <<>>

\* self._raw_values = self._raw_values_full[4:]
Skip(grid, n) == SubSeq(grid, n + 1, Len(grid))

\* ------------------------------------------------------------- actions
\* _get_colmap without the check for a missing marker
GetColmapNoCheck ==
    /\ pc = "init"
    /\ colmap' = MakeColmap(KeyColNr(raw_values_full[2]))
    /\ pc' = "colmap"
    /\ UNCHANGED <<raw_values_full, values_full, summary_values,
                   parents_summary_values, error, sheet, uploads>>

\* InputWorksheet.__init__ up to self._colmap = self._get_colmap()
GetColmap ==
    /\ pc = "init"
    /\ LET key_col_nr == KeyColNr(raw_values_full[2])
       IN  IF key_col_nr = 0
           THEN /\ error' = "ValueError"
                /\ pc' = "failed"
                /\ UNCHANGED colmap
           ELSE /\ colmap' = MakeColmap(key_col_nr)
                /\ pc' = "colmap"
                /\ UNCHANGED error
    /\ UNCHANGED <<raw_values_full, values_full, summary_values,
                   parents_summary_values, sheet, uploads>>

\* InputWorksheet.__init__ from self._summary_col_numbers on
GetSummaryValues ==
    /\ pc = "colmap"
    /\ LET res == SummaryResult(Skip(raw_values_full, TITLE_ROWS),
                                Skip(values_full, TITLE_ROWS),
                                colmap, SummaryColNumbers(colmap))
       IN  /\ error' = res.error
           /\ summary_values' = res.leaf
           /\ parents_summary_values' = res.parents
           /\ pc' = IF res.error = "none" THEN "summary" ELSE "failed"
    /\ UNCHANGED <<raw_values_full, values_full, colmap, sheet, uploads>>

\* ------------------------------------------------------------- OutputWorksheet
\* Worksheet.insert_rows(values, row=first_row)
InsertRows(sh, values, row) ==
    SubSeq(sh, 1, row - 1) \o values \o SubSeq(sh, row, Len(sh))

\* Worksheet.delete_rows(index)
DeleteRows(sh, index) ==
    SubSeq(sh, 1, index - 1) \o SubSeq(sh, index + 1, Len(sh))

\* Worksheet.update_cells([cell]) for one cell
UpdateCell(sh, row, col, value) ==
    LET old == sh[row]
        wide == [c \in 1..(IF Len(old) > col THEN Len(old) ELSE col) |->
                    IF c <= Len(old) THEN old[c] ELSE Str(<<>>)]
    IN  [sh EXCEPT ![row] = [wide EXCEPT ![col] = value]]

\* f"{col}{row}"
CellLabel(col, row) == <<col>> \o FormatInt(row)

\* percent_cell_range = f"{first_percent_cell}{end_percent_cell}"
PercentCellRange(first_row, end_range_row) ==
    CellLabel(PERCENT_COL, first_row) \o CellLabel(PERCENT_COL, end_range_row)

\* f"=SUM({start_range_lbl}:{end_range_lbl})"
ResultFormula(first_row, end_range_row) ==
    <<"=", "S", "U", "M", "(">> \o CellLabel(RESULT_COL, first_row) \o <<":">>
        \o CellLabel(RESULT_COL, end_range_row) \o <<")">>

\* what one run of _upload_values passes to the worksheet
UploadRecord(values, first_row) ==
    LET end_range_row == first_row + Len(values) - 1
        percent_cell_range == PercentCellRange(first_row, end_range_row)
        result_row == end_range_row + 1
    IN  [first_row |-> first_row,
         n |-> Len(values),
         percent_range |-> percent_cell_range,
         date_range |-> Replace(percent_cell_range, PERCENT_COL, DATE_COL),
         deleted_row |-> end_range_row + 1,
         result_row |-> result_row,
         label |-> CellLabel(RESULT_COL, result_row),
         sum_first |-> first_row,
         sum_last |-> end_range_row,
         formula |-> ResultFormula(first_row, end_range_row),
         input_option |-> "USER_ENTERED"]

\* the worksheet after one run of _upload_values
Uploaded(sh, values, first_row) ==
    LET u == UploadRecord(values, first_row)
    IN  UpdateCell(DeleteRows(InsertRows(sh, values, first_row), u.deleted_row),
                   u.result_row, RESULT_COL_NR, Str(u.formula))

\* The spreadsheet service's answer to an insertion of no rows is not in the
\* source: it either refuses the request or inserts nothing.
InsertOutcomes(values) == IF Len(values) = 0 THEN {"APIError", "ok"} ELSE {"ok"}

\* self._upload_values(values, first_row)
UploadValues(values, first_row, next_pc) ==
    \E outcome \in InsertOutcomes(values) :
        IF outcome = "APIError"
        THEN /\ error' = "APIError"
             /\ pc' = "failed"
             /\ UNCHANGED <<sheet, uploads>>
        ELSE /\ sheet' = Uploaded(sheet, values, first_row)
             /\ uploads' = Append(uploads, UploadRecord(values, first_row))
             /\ pc' = next_pc
             /\ UNCHANGED error

\* upload_data, first call
UploadLeaf ==
    /\ pc = "summary"
    /\ UploadValues(summary_values, FIRST_DATAROW, "leaf_uploaded")
    /\ UNCHANGED <<raw_values_full, values_full, colmap, summary_values,
                   parents_summary_values>>

\* first_parents_row = self.FIRST_DATAROW + len(self.summary_values) + 2
FirstParentsRow == FIRST_DATAROW + Len(summary_values) + 2

\* upload_data, second call
UploadParents ==
    /\ pc = "leaf_uploaded"
    /\ UploadValues(parents_summary_values, FirstParentsRow, "done")
    /\ UNCHANGED <<raw_values_full, values_full, colmap, summary_values,
                   parents_summary_values>>

Next == GetColmap \/ GetSummaryValues \/ UploadLeaf \/ UploadParents

Spec == Init /\ [][Next]_vars

\* ------------------------------------------------------------- properties
RawData == Skip(raw_values_full, TITLE_ROWS)
FmtData == Skip(values_full, TITLE_ROWS)
Header == raw_values_full[2]
OutRows == summary_values \o parents_summary_values

\* _get_summary_values returned
Summarised ==
    pc \in {"summary", "leaf_uploaded", "done"} \/ (pc = "failed" /\ error = "APIError")

\* a cell holding any text or any number, 0 included
NonEmpty(cell) == cell # Str(<<>>)

\* the five admission predicates as the specification words them
Admissible(row) ==
    /\ NonEmpty(row[colmap.ordinal])
    /\ NonEmpty(row[colmap.amount])
    /\ row[colmap.what_category] # Str(TRANSFER)
    /\ ~(IsStr(row[colmap.incomings]) /\ Contains(ROZLICZENIE, row[colmap.incomings].s))
    /\ NonEmpty(row[colmap.percentage])

\* the rows of a table that came from data row i: the formatted date of a data
\* row is the text of no other cell of the grids
Copies(table, i) ==
    {j \in 1..Len(table) :
        \E c \in 1..Len(table[j]) : table[j][c] = FmtData[i][colmap.date]}

\* the cell as text
AsText(cell) == IF IsStr(cell) THEN cell.s ELSE FormatInt(cell.n)

\* the column of the input grid that cell m of a projected row was taken from
ColumnOfCell(m) ==
    LET cols == {colmap.ordinal, colmap.amount, colmap.where, colmap.who,
                 colmap.what_category, colmap.what_item, colmap.incomings,
                 colmap.date, colmap.separator, colmap.percentage, colmap.share}
    IN  CHOOSE c \in cols : Cardinality({d \in cols : d <= c}) = m

\* C1: a data row is in one of the two partitions if and only if its ordinal,
\* amount and percentage cells are non-empty (the number 0 counts as non-empty),
\* its category is not "transfer" and its incomings do not contain "rozliczenie".
C1_AdmittedIffAllFivePredicates ==
    Summarised =>
        \A i \in 1..Len(RawData) : (Copies(OutRows, i) # {}) <=> Admissible(RawData[i])

\* C2: every row that passes the filter is in the parent partition exactly once
\* if its ordinal, taken as text, starts with "R" and in the leaf partition
\* exactly once otherwise, whether the ordinal cell is a text or a number.
C2_PartitionByOrdinalText ==
    (pc \notin {"init", "colmap"} /\ colmap # NULL
        /\ error \notin {"IndexError", "TypeError"}) =>
        \A i \in 1..Len(RawData) :
            RowAdmit(RawData[i], colmap) = "keep" =>
                LET r == StartsWith(AsText(RawData[i][colmap.ordinal]), PARENT_PREFIX)
                IN  /\ Cardinality(Copies(parents_summary_values, i)) = IF r THEN 1 ELSE 0
                    /\ Cardinality(Copies(summary_values, i)) = IF r THEN 0 ELSE 1

\* the 11 cells of an output row in the order ordinal, amount, where, who,
\* category, item, incomings, date, separator, percentage, share, taken from
\* data row i
InSummaryOrder(row, i) ==
    LET k == colmap.where
        order == <<1, 2, k, k + 1, k + 2, k + 3, k + 4, k + 5, k + 6, k + 7>>
    IN  /\ Len(row) = 11
        /\ \A m \in 1..10 :
              row[m] = IF m = 8 THEN FmtData[i][order[m]] ELSE RawData[i][order[m]]
        /\ IsFloat(row[11])

\* C3 as stated: every output row has the 11 cells in the summary order,
\* wherever the marker column lies.
C3_ElevenCellsInOrderAnyMarker ==
    Summarised => \A j \in 1..Len(OutRows) :
        \E i \in 1..Len(RawData) : InSummaryOrder(OutRows[j], i)

\* C3 amended: when the marker column is 3 or more, every output row has
\* exactly 11 cells in the order ordinal, amount, where, who, category, item,
\* incomings, date, separator, percentage, share.
C3_ElevenCellsInOrder ==
    (Summarised /\ colmap.where >= 3) => \A j \in 1..Len(OutRows) :
        \E i \in 1..Len(RawData) : InSummaryOrder(OutRows[j], i)

C3_Witness ==
    /\ Summarised
    /\ colmap.where = 18
    /\ Len(summary_values) = 1
    /\ Len(parents_summary_values) = 1
    /\ summary_values[1][3] = RawData[1][18]

\* C4: with the leftmost marker of the header row at column k, the column map
\* has ordinal=1, amount=2, balance=3, bank_tag=4, where=k and bank_accounts
\* the integers from 5 up to k-1.
C4_ColmapFromLeftmostMarker ==
    \A k \in 1..Len(Header) :
        (pc # "init" /\ Header[k] = Str(KEY) /\ \A j \in 1..(k - 1) : Header[j] # Str(KEY)) =>
            /\ colmap # NULL
            /\ colmap.ordinal = 1 /\ colmap.amount = 2
            /\ colmap.balance = 3 /\ colmap.bank_tag = 4
            /\ colmap.where = k
            /\ Len(colmap.bank_accounts) = (IF k > 5 THEN k - 5 ELSE 0)
            /\ \A i \in 1..Len(colmap.bank_accounts) : colmap.bank_accounts[i] = 4 + i

C4_Witness ==
    /\ pc = "colmap"
    /\ colmap.where = 7
    /\ Len(Header) >= 9
    /\ Header[9] = Str(KEY)
    /\ colmap.bank_accounts = <<5, 6>>

\* C5: with the marker at column 18 the column map is the one the docstring of
\* _get_colmap gives for August 2021, share = 26 included.
C5_August2021Colmap ==
    (colmap # NULL /\ colmap.where = 18) =>
        colmap = [ordinal |-> 1, amount |-> 2, balance |-> 3, bank_tag |-> 4,
                  bank_accounts |-> <<5, 6, 7, 8, 9, 10, 11, 12, 13, 14, 15, 16, 17>>,
                  where |-> 18, who |-> 19, what_category |-> 20, what_item |-> 21,
                  incomings |-> 22, date |-> 23, separator |-> 24,
                  percentage |-> 25, share |-> 26]

\* C6: when the header row holds no marker, the run fails with a ValueError,
\* there is no column map, no summary partition and nothing is uploaded.
C6_NoMarkerFails ==
    (pc # "init" /\ \A c \in 1..Len(Header) : Header[c] # Str(KEY)) =>
        /\ pc = "failed"
        /\ error = "ValueError"
        /\ colmap = NULL
        /\ OutRows = <<>>
        /\ uploads = <<>>
        /\ sheet = Template

C6_Witness ==
    /\ pc = "failed"
    /\ error = "ValueError"
    /\ Len(Header) = MaxWidth
    /\ Len(RawData) = 2

\* cell by cell, the output row is data row i: its date cell from the
\* formatted grid and not the unformatted one, its share cell computed, every
\* other cell from the unformatted grid
FromDataRow(row, i) ==
    \A m \in 1..Len(row) :
        LET c == ColumnOfCell(m)
        IN  IF c = colmap.date
            THEN row[m] = FmtData[i][c] /\ row[m] # RawData[i][c]
            ELSE c # colmap.share => row[m] = RawData[i][c]

\* C7: the date cell of every output row is the formatted grid's value at the
\* row's own position and the date column; the other cells except the share
\* are the unformatted grid's.
C7_DateFromFormattedGrid ==
    Summarised => \A j \in 1..Len(OutRows) :
        \E i \in 1..Len(RawData) : FromDataRow(OutRows[j], i)

C7_Witness ==
    /\ Summarised
    /\ Len(RawData) = 2
    /\ Len(summary_values) = 1
    /\ Len(summary_values[1]) = 11
    /\ summary_values[1][8] = Str(DateText(2))
    /\ RawData[2][colmap.date] = Num(DateSerial(2))

\* C8: the last cell of every output row is that row's amount times its
\* percentage divided by 100: share * 100 = amount * percentage.
C8_ShareIsAmountTimesPercentage ==
    Summarised => \A j \in 1..Len(OutRows) :
        LET row == OutRows[j]
            share == row[Len(row)]
            amount == row[2]
            percentage == row[Len(row) - 1]
        IN  /\ IsFloat(share) /\ IsNum(amount) /\ IsNum(percentage)
            /\ share.den # 0
            /\ share.num * 100 = amount.n * percentage.n * share.den

C8_Witness ==
    /\ Summarised
    /\ Len(summary_values) = 1 /\ Len(parents_summary_values) = 1
    /\ Len(summary_values[1]) = 11 /\ Len(parents_summary_values[1]) = 11
    /\ summary_values[1][11] = Float(10000, 100)
    /\ parents_summary_values[1][11] = Float(0 - 3000, 100)
    /\ RawData[1][colmap.share] = Num(999)

\* the rows an A1 range between two corner rows covers
RangeRows(a, b) == IF a <= b THEN a..b ELSE b..a

\* "<col><first>:<col><last>"
A1Range(col, first, last) ==
    <<col>> \o FormatNat(first) \o <<":", col>> \o FormatNat(last)

\* C9: after every upload of n >= 0 rows at first_row the rows are at first_row
\* .. first_row+n-1, the formula in column K of the row below sums column K
\* over exactly those rows (never its own cell nor a row above first_row), and
\* the parents' block starts at row 3 + n_leaf + 2, clear of the leaf block.
C9_SumOverWrittenRows ==
    /\ \A x \in 1..Len(uploads) :
          LET u == uploads[x]
              written == u.first_row..(u.first_row + u.n - 1)
              table == IF x = 1 THEN summary_values ELSE parents_summary_values
          IN  /\ \A r \in written : sheet[r] = table[r - u.first_row + 1]
              /\ u.result_row = u.first_row + u.n
              /\ u.label = <<"K">> \o FormatNat(u.first_row + u.n)
              /\ sheet[u.result_row][RESULT_COL_NR] = Str(u.formula)
              /\ RangeRows(u.sum_first, u.sum_last) = written
              /\ u.result_row \notin RangeRows(u.sum_first, u.sum_last)
              /\ \A r \in RangeRows(u.sum_first, u.sum_last) : r >= u.first_row
    /\ Len(uploads) = 2 =>
          /\ uploads[2].first_row = 3 + uploads[1].n + 2
          /\ uploads[2].first_row > uploads[1].result_row

\* C10: for every upload of n >= 1 rows the range given to the percentage
\* formatting is "J<first_row>:J<first_row+n-1>" and the one given to the date
\* formatting is "H<first_row>:H<first_row+n-1>".
C10_FormatRangesWellFormed ==
    \A x \in 1..Len(uploads) :
        LET u == uploads[x]
        IN  u.n >= 1 =>
              /\ u.percent_range = A1Range("J", u.first_row, u.first_row + u.n - 1)
              /\ u.date_range = A1Range("H", u.first_row, u.first_row + u.n - 1)

====
